---- MODULE Spec2Model ----
(***************************************************************************)
(* A model of bullseye_pipeline/utils.py: the label-volume functions       *)
(* filter_labels and merge_labels, and the front-advancing label           *)
(* propagation of generate_wmparc.                                         *)
(*                                                                         *)
(* A volume is a function from voxel indices to numbers.  A voxel index of *)
(* generate_wmparc is a triple <<i, j, k>>, 0-based as in numpy, on a grid *)
(* whose shape is part of the state.  Distances are held as whole numbers  *)
(* of 1/DistOne, so that 0 is 0.0 and DistOne is 1.0.                      *)
(***************************************************************************)
EXTENDS Integers, Sequences, FiniteSets

VARIABLES
    \* generate_wmparc
    shape, incl_mask, ndist, label, DONE_mask, proc_mask, out, its_conn,
    TODO_mask, visited, wmparc, pc,
    \* filter_labels
    in_data, include_superlist, fixed_id, map_pairs_list, new_data, mapped_data,
    final_data, filtered, fl_i, fl_pc,
    \* merge_labels
    in1, in2, intersect, merged, ml_pc

wmVars == <<shape, incl_mask, ndist, label, DONE_mask, proc_mask, out,
            its_conn, TODO_mask, visited, wmparc, pc>>

flVars == <<in_data, include_superlist, fixed_id, map_pairs_list, new_data,
            mapped_data, final_data, filtered, fl_i, fl_pc>>

mlVars == <<in1, in2, intersect, merged, ml_pc>>

vars == <<wmVars, flVars, mlVars>>

\* The variables of a function that is not the one running.
Unused == <<>>

WmIdle ==
    /\ shape = Unused /\ incl_mask = Unused /\ ndist = Unused /\ label = Unused
    /\ DONE_mask = Unused /\ proc_mask = Unused /\ out = Unused /\ its_conn = Unused
    /\ TODO_mask = Unused /\ visited = Unused /\ wmparc = Unused /\ pc = Unused

FlIdle ==
    /\ in_data = Unused /\ include_superlist = Unused /\ fixed_id = Unused
    /\ map_pairs_list = Unused /\ new_data = Unused /\ mapped_data = Unused
    /\ final_data = Unused /\ filtered = Unused /\ fl_i = Unused /\ fl_pc = Unused

MlIdle ==
    /\ in1 = Unused /\ in2 = Unused /\ intersect = Unused /\ merged = Unused
    /\ ml_pc = Unused

----------------------------------------------------------------------------
(* Bounds of the model.                                                    *)

\* Label ids of the enumerated volumes are 0..MaxLabel.
MaxLabel == 2
\* The enumerated distance fields take 0.0, NDistLevels values strictly
\* between 0.0 and 1.0, and 1.0.
NDistLevels == 2
\* The enumerated seed volumes have at most MaxSeeds voxels with a label > 0.
MaxSeeds == 2
\* its_conn is unbounded in the code; it is held at MaxConn, a radius at which
\* the iterated structure already spans every grid of the model.
MaxConn == 3

\* The end-to-end scenario: one seed of label 7 in a corner of a 5x5x5 grid.
E2E == [shape |-> <<5, 5, 5>>, seed |-> <<0, 0, 0>>, label |-> 7]

E2EShape == E2E.shape
\* 1.0 in units of the distance field: the city-block distance between the
\* opposite corners of the scenario's grid, so that its field is i + j + k.
DistOne == (E2EShape[1] - 1) + (E2EShape[2] - 1) + (E2EShape[3] - 1)
E2ELabel == E2E.label

\* Grids on which every inclusion mask, distance field and seed volume is
\* enumerated.
FullShapes == {<<3, 1, 1>>}
\* Grids on which every distance field and seed volume is enumerated, with
\* every voxel included.
DenseShapes == {<<2, 2, 1>>}
\* Grids on which one seed voxel and one included voxel are enumerated.
SparseShapes == {<<2, 2, 1>>, <<2, 2, 2>>}

DistValues == {0} \cup (1..NDistLevels) \cup {DistOne}

----------------------------------------------------------------------------
(* Index arithmetic.                                                       *)

Vox(sh) == (0..(sh[1] - 1)) \X (0..(sh[2] - 1)) \X (0..(sh[3] - 1))

Add(a, b) == <<a[1] + b[1], a[2] + b[2], a[3] + b[3]>>

Abs(n) == IF n < 0 THEN -n ELSE n

\* np.ravel_multi_index: the C-order flat index of a voxel.
Flat(v) == (v[1] * shape[2] + v[2]) * shape[3] + v[3]

\* A raw index that lies inside the grid on every axis.
InGrid(r) == \A a \in 1..3 : 0 <= r[a] /\ r[a] < shape[a]

\* numpy accepts an index i on an axis of size n when -n <= i < n ...
IndexOK(r) == \A a \in 1..3 : -shape[a] <= r[a] /\ r[a] < shape[a]

\* ... and reads a negative one from the far end of the axis.
WrapIndex(r) ==
    <<IF r[1] < 0 THEN r[1] + shape[1] ELSE r[1],
      IF r[2] < 0 THEN r[2] + shape[2] ELSE r[2],
      IF r[3] < 0 THEN r[3] + shape[3] ELSE r[3]>>

----------------------------------------------------------------------------
(* scipy.ndimage structures.                                               *)

\* A faulty connectivity: generate_binary_structure(3, 1), faces only.
connectivity_faces ==
    {o \in (-1..1) \X (-1..1) \X (-1..1) : Abs(o[1]) + Abs(o[2]) + Abs(o[3]) <= 1}

\* generate_binary_structure(3, 2): the offsets of the 3x3x3 cube at
\* city-block distance at most 2 from its centre (faces and edges).
connectivity ==
    {o \in (-1..1) \X (-1..1) \X (-1..1) : Abs(o[1]) + Abs(o[2]) + Abs(o[3]) <= 2}

\* iterate_structure(structure, n): the structure dilated n - 1 times by
\* itself, as offsets from the centre of the (2n+1)^3 result.
RECURSIVE iterate_structure(_, _)
iterate_structure(structure, n) ==
    IF n < 2 THEN structure
    ELSE {Add(a, b) : a \in iterate_structure(structure, n - 1), b \in structure}

\* iterate_structure(connectivity, its_conn) for each radius its_conn takes.
structures == [n \in 1..MaxConn |-> iterate_structure(connectivity, n)]

\* binary_dilation(input, structure): the voxels of the grid reached from a
\* voxel of input by an offset of the structure (border value 0: nothing is
\* read from beyond the grid).
binary_dilation(input, structure) ==
    {v \in Vox(shape) : \E o \in structure : InGrid(Add(v, o)) /\ Add(v, o) \in input}

\* A faulty Wavefront: DONE voxels are not taken out of the front.
WavefrontWithDone(n) ==
    binary_dilation(DONE_mask, structures[n]) \cap proc_mask

\* TODO_mask at radius n: close to DONE, in the processing mask, not yet done.
Wavefront(n) ==
    (binary_dilation(DONE_mask, structures[n]) \cap proc_mask)
        \ DONE_mask

----------------------------------------------------------------------------
(* The neighbour scan of one wavefront voxel.                              *)

\* np.argwhere(structure) - n: the offset at row-major position p of the
\* (2n+1)^3 structure array.
Offset(p, n) ==
    LET w == 2 * n + 1
    IN  <<(p \div (w * w)) - n, ((p \div w) % w) - n, (p % w) - n>>

\* A faulty NoDist: max_dist starts at 1.0.
NoDistHigh == DistOne

\* max_dist before the first neighbour is looked at.
NoDist == -1

\* The positions, in np.argwhere's row-major order, of the offsets of the
\* structure S of radius n whose index idx + off numpy accepts (no IndexError
\* for the bare except to catch) and reads as a voxel of done.
Hits(idx, done, S, n) ==
    {p \in 0..((2 * n + 1) * (2 * n + 1) * (2 * n + 1) - 1) :
        /\ Offset(p, n) \in S
        /\ IndexOK(Add(idx, Offset(p, n)))
        /\ WrapIndex(Add(idx, Offset(p, n))) \in done}

\* What the loop over the neighbours at the positions hits leaves in out[idx],
\* started with the given max_dist and the value val.  The loop replaces its
\* running maximum only by a strictly greater distance, so it ends with the
\* label of the first neighbour, in scan order, of the greatest distance, if
\* that exceeds the starting max_dist.
Farthest(idx, hits, n, max_dist, val) ==
    LET top == {p \in hits :
                  /\ ndist[WrapIndex(Add(idx, Offset(p, n)))] > max_dist
                  /\ \A q \in hits : ndist[WrapIndex(Add(idx, Offset(q, n)))]
                                       <= ndist[WrapIndex(Add(idx, Offset(p, n)))]}
    IN  IF top = {} THEN val
        ELSE out[WrapIndex(Add(idx, Offset(CHOOSE p \in top : \A q \in top : p <= q, n)))]

\* The loop over the offsets of the structure S of radius n; done is the DONE
\* set read.
Scan(idx, done, S, n, max_dist, val) ==
    CHOOSE l \in {Farthest(idx, hits, n, max_dist, val) :
                    hits \in {Hits(idx, done, S, n)}} : TRUE

\* The scan of idx's neighbours had it read the DONE set of round start.
NeighbourLabelAtRoundStart(idx) ==
    Scan(idx, DONE_mask \ visited, structures[its_conn],
         its_conn, NoDist, out[idx])

\* out[idx] after the scan of idx's neighbours, read from the live DONE_mask.
NeighbourLabel(idx) ==
    Scan(idx, DONE_mask, structures[its_conn],
         its_conn, NoDist, out[idx])

----------------------------------------------------------------------------
(* Number conversion on saving.                                            *)

Pow2(w) == IF w = 8 THEN 256 ELSE 65536

\* What a build does with a float sample beyond the range of the integer type
\* it is converted to: the C conversion is undefined there, and builds either
\* wrap modulo 2^w or saturate.
CastModes == {"wrap", "saturate"}

\* astype / assignment of a float sample x to a signed integer of w bits:
\* exact in range, by the build's mode out of range.
CastInt(x, w, mode) ==
    LET half == Pow2(w) \div 2
    IN  IF -half <= x /\ x < half THEN x
        ELSE IF mode = "wrap" THEN ((x + half) % Pow2(w)) - half
        ELSE IF x < 0 THEN -half ELSE half - 1

----------------------------------------------------------------------------
(* generate_wmparc.                                                        *)

\* Seed volumes with at most MaxSeeds labelled voxels.
SeedVolumes(sh) ==
    {l \in [Vox(sh) -> 0..MaxLabel] : Cardinality({v \in Vox(sh) : l[v] > 0}) <= MaxSeeds}

FullInputs(sh) ==
    {[incl |-> m, nd |-> d, lab |-> l] :
        m \in [Vox(sh) -> BOOLEAN], d \in [Vox(sh) -> DistValues], l \in SeedVolumes(sh)}

DenseInputs(sh) ==
    {[incl |-> [v \in Vox(sh) |-> TRUE], nd |-> d, lab |-> l] :
        d \in [Vox(sh) -> DistValues], l \in SeedVolumes(sh)}

SparseInputs(sh) ==
    {[incl |-> [v \in Vox(sh) |-> v = t],
      nd   |-> [v \in Vox(sh) |-> IF v = t THEN d ELSE 0],
      lab  |-> [v \in Vox(sh) |-> IF v = s THEN l ELSE 0]] :
        s \in Vox(sh), t \in Vox(sh), d \in DistValues, l \in 0..MaxLabel}

E2ESeed == E2E.seed

E2EFar == <<E2EShape[1] - 1, E2EShape[2] - 1, E2EShape[3] - 1>>

E2EInput ==
    [incl |-> [v \in Vox(E2EShape) |-> v # E2ESeed],
     nd   |-> [v \in Vox(E2EShape) |-> v[1] + v[2] + v[3]],
     lab  |-> [v \in Vox(E2EShape) |-> IF v = E2ESeed THEN E2ELabel ELSE 0]]

Inputs(sh) ==
    (IF sh \in FullShapes THEN FullInputs(sh) ELSE {})
    \cup (IF sh \in DenseShapes THEN DenseInputs(sh) ELSE {})
    \cup (IF sh \in SparseShapes THEN SparseInputs(sh) ELSE {})
    \cup (IF sh = E2EShape THEN {E2EInput} ELSE {})

\* A faulty InRegion: a distance of 1.0 counts as inside.
InRegionClosed(d, m) == d > 0 /\ d <= DistOne /\ m

\* Line 230: a voxel of distance d and inclusion m is in the processing mask.
InRegion(d, m) == d > 0 /\ d < DistOne /\ m

\* Lines 204-239: the state on reaching the main loop with grid sh and
\* volumes inp.
WmStart(sh, inp) ==
    /\ shape = sh
    /\ incl_mask = inp.incl
    /\ ndist = inp.nd
    /\ label = inp.lab
    /\ DONE_mask = {v \in Vox(sh) : inp.lab[v] > 0}
    /\ proc_mask = {v \in Vox(sh) : InRegion(inp.nd[v], inp.incl[v])}
    /\ out = [v \in Vox(sh) |-> IF inp.lab[v] > 0 THEN inp.lab[v] ELSE 0]
    /\ its_conn = 1
    /\ TODO_mask = {}
    /\ visited = {}
    /\ wmparc = Unused
    /\ pc = "while"

WmInit ==
    /\ \E sh \in FullShapes \cup DenseShapes \cup SparseShapes \cup {E2EShape} :
         \E inp \in Inputs(sh) : WmStart(sh, inp)
    /\ FlIdle /\ MlIdle

\* The runs on the sparsely enumerated grids alone.
WmInitSparse ==
    /\ \E sh \in SparseShapes : \E inp \in SparseInputs(sh) : WmStart(sh, inp)
    /\ FlIdle /\ MlIdle

\* Line 242, condition true: a round begins.
Round ==
    /\ pc = "while"
    /\ ~(proc_mask \subseteq DONE_mask)
    /\ pc' = "dilate"
    /\ UNCHANGED <<shape, incl_mask, ndist, label, DONE_mask, proc_mask, out,
                   its_conn, TODO_mask, visited>>
    /\ UNCHANGED <<wmparc, flVars, mlVars>>

\* Lines 251-253: the wavefront at the current radius.
Dilate ==
    /\ pc = "dilate"
    /\ TODO_mask' = Wavefront(its_conn)
    /\ visited' = {}
    /\ pc' = "front"
    /\ UNCHANGED <<shape, incl_mask, ndist, label, DONE_mask, proc_mask, out, its_conn>>
    /\ UNCHANGED <<wmparc, flVars, mlVars>>

\* Lines 255-261, empty wavefront: the radius grows and the dilation is retried.
Escalate ==
    /\ pc = "front"
    /\ TODO_mask = {}
    /\ its_conn' = IF its_conn < MaxConn THEN its_conn + 1 ELSE its_conn
    /\ pc' = "dilate"
    /\ UNCHANGED <<shape, incl_mask, ndist, label, DONE_mask, proc_mask, out,
                   TODO_mask, visited>>
    /\ UNCHANGED <<wmparc, flVars, mlVars>>

\* Lines 255-256, 264-266: a non-empty wavefront leaves the inner loop.
Break ==
    /\ pc = "front"
    /\ TODO_mask # {}
    /\ pc' = "scan"
    /\ UNCHANGED <<shape, incl_mask, ndist, label, DONE_mask, proc_mask, out,
                   its_conn, TODO_mask, visited>>
    /\ UNCHANGED <<wmparc, flVars, mlVars>>

\* The voxels that may come next in Idx_TODO[I_sort[::-1]]: the largest
\* distance first.  np.argsort's default sort is not stable, so voxels of equal
\* distance come in any order; on the scenario grid, whose ties are too many to
\* enumerate, they come by descending flat index (a stable sort, reversed).
NextInOrder ==
    LET rest == TODO_mask \ visited
        top  == {v \in rest : \A u \in rest : ndist[u] <= ndist[v]}
    IN  IF shape = E2EShape
          THEN {v \in top : \A u \in top : Flat(u) <= Flat(v)}
          ELSE top

\* Lines 269-296: one wavefront voxel is labelled and marked DONE.
Resolve ==
    /\ pc = "scan"
    /\ \E idx \in NextInOrder :
         /\ out' = [out EXCEPT ![idx] = NeighbourLabel(idx)]
         /\ DONE_mask' = DONE_mask \cup {idx}
         /\ visited' = visited \cup {idx}
         /\ pc' = IF visited \cup {idx} = TODO_mask THEN "while" ELSE "scan"
    /\ UNCHANGED <<shape, incl_mask, ndist, label, proc_mask, its_conn, TODO_mask>>
    /\ UNCHANGED <<wmparc, flVars, mlVars>>

\* Line 242, condition false, and line 302: the output is saved as int16.
Finish ==
    /\ pc = "while"
    /\ proc_mask \subseteq DONE_mask
    /\ \E mode \in CastModes :
         wmparc' = [v \in Vox(shape) |-> CastInt(out[v], 16, mode)]
    /\ pc' = "done"
    /\ UNCHANGED <<shape, incl_mask, ndist, label, DONE_mask, proc_mask, out,
                   its_conn, TODO_mask, visited>>
    /\ UNCHANGED <<flVars, mlVars>>

WmNext == Round \/ Dilate \/ Escalate \/ Break \/ Resolve \/ Finish

SpecWM == WmInit /\ [][WmNext]_vars

\* The loop is sequential code: a step that can be taken is taken.
FairSpecWM == WmInitSparse /\ [][WmNext]_vars /\ WF_vars(WmNext)

----------------------------------------------------------------------------
(* filter_labels.  A volume is a function on FlVox.                        *)

\* Groups are listed up to MaxGroups, each of up to MaxGroupLen ids, and remap
\* pairs up to MaxPairs.
MaxGroups == 2
MaxGroupLen == 2
MaxPairs == 2

FlVox == {1}

Ids == 0..MaxLabel

\* An optional argument: None, or the value given.
None == {}
Some(x) == {x}
Given(opt) == CHOOSE x \in opt : TRUE

SeqsUpTo(S, n) == UNION {[1..k -> S] : k \in 0..n}

\* arr[mask_arr == value] = new_value
SetWhere(arr, mask_arr, value, new_value) ==
    [v \in DOMAIN arr |-> IF mask_arr[v] = value THEN new_value ELSE arr[v]]

\* A faulty NewLabel: the last id of the group, not the first.
NewLabelLast(fixed, labels_list) ==
    IF fixed # None THEN Given(fixed)[1] ELSE labels_list[Len(labels_list)]

\* Lines 58-61: the id a group is relabelled to.
NewLabel(fixed, labels_list) ==
    IF fixed # None THEN Given(fixed)[1] ELSE labels_list[1]

\* Lines 62-63: the loop over the ids of one group, from position k on.
RECURSIVE GroupLoop(_, _, _, _)
GroupLoop(data, labels_list, k, new_label) ==
    IF k > Len(labels_list) THEN data
    ELSE GroupLoop(SetWhere(data, in_data, labels_list[k], new_label),
                   labels_list, k + 1, new_label)

\* A faulty RemapPair: the pair is matched against the remapped volume.
RemapPairChained(mapped, grouped, pair) == SetWhere(mapped, mapped, pair[1], pair[2])

\* Line 69: one remap pair, matched against the grouped volume.
RemapPair(mapped, grouped, pair) == SetWhere(mapped, grouped, pair[1], pair[2])

\* Lines 52-54: the arguments and the all-zero output.
FlInit ==
    /\ in_data \in [FlVox -> Ids]
    /\ include_superlist \in SeqsUpTo(SeqsUpTo(Ids, MaxGroupLen) \ {<<>>}, MaxGroups)
    /\ fixed_id \in {None} \cup {Some(<<l>>) : l \in Ids}
    /\ map_pairs_list \in {None} \cup {Some(ps) : ps \in SeqsUpTo(Ids \X Ids, MaxPairs)}
    /\ new_data = [v \in FlVox |-> 0]
    /\ mapped_data = Unused
    /\ final_data = Unused
    /\ filtered = Unused
    /\ fl_i = 1
    /\ fl_pc = "group"
    /\ WmIdle /\ MlIdle

\* Lines 57-63: one group is relabelled.
FlGroup ==
    /\ fl_pc = "group"
    /\ fl_i <= Len(include_superlist)
    /\ new_data' = GroupLoop(new_data, include_superlist[fl_i], 1,
                             NewLabel(fixed_id, include_superlist[fl_i]))
    /\ fl_i' = fl_i + 1
    /\ UNCHANGED <<in_data, include_superlist, fixed_id, map_pairs_list,
                   mapped_data, final_data, filtered, fl_pc>>
    /\ UNCHANGED <<wmVars, mlVars>>

\* Lines 66-67: remap pairs are given; they work on a copy.
FlMapStart ==
    /\ fl_pc = "group"
    /\ fl_i > Len(include_superlist)
    /\ map_pairs_list # None
    /\ mapped_data' = new_data
    /\ fl_i' = 1
    /\ fl_pc' = "map"
    /\ UNCHANGED <<in_data, include_superlist, fixed_id, map_pairs_list,
                   new_data, final_data, filtered>>
    /\ UNCHANGED <<wmVars, mlVars>>

\* Lines 68-69: one remap pair is applied.
FlMapPair ==
    /\ fl_pc = "map"
    /\ fl_i <= Len(Given(map_pairs_list))
    /\ mapped_data' = RemapPair(mapped_data, new_data, Given(map_pairs_list)[fl_i])
    /\ fl_i' = fl_i + 1
    /\ UNCHANGED <<in_data, include_superlist, fixed_id, map_pairs_list,
                   new_data, final_data, filtered, fl_pc>>
    /\ UNCHANGED <<wmVars, mlVars>>

\* Line 70: the remapped copy is the result.
FlMapEnd ==
    /\ fl_pc = "map"
    /\ fl_i > Len(Given(map_pairs_list))
    /\ final_data' = mapped_data
    /\ fl_pc' = "save"
    /\ UNCHANGED <<in_data, include_superlist, fixed_id, map_pairs_list,
                   new_data, mapped_data, filtered, fl_i>>
    /\ UNCHANGED <<wmVars, mlVars>>

\* Lines 71-72: no remap pairs; the grouped volume is the result.
FlNoMap ==
    /\ fl_pc = "group"
    /\ fl_i > Len(include_superlist)
    /\ map_pairs_list = None
    /\ final_data' = new_data
    /\ fl_pc' = "save"
    /\ UNCHANGED <<in_data, include_superlist, fixed_id, map_pairs_list,
                   new_data, mapped_data, filtered, fl_i>>
    /\ UNCHANGED <<wmVars, mlVars>>

\* Lines 75-76: the result is saved as int16.
FlSave ==
    /\ fl_pc = "save"
    /\ \E mode \in CastModes :
         filtered' = [v \in FlVox |-> CastInt(final_data[v], 16, mode)]
    /\ fl_pc' = "done"
    /\ UNCHANGED <<in_data, include_superlist, fixed_id, map_pairs_list,
                   new_data, mapped_data, final_data, fl_i>>
    /\ UNCHANGED <<wmVars, mlVars>>

FlNext == FlGroup \/ FlMapStart \/ FlMapPair \/ FlMapEnd \/ FlNoMap \/ FlSave

SpecFL == FlInit /\ [][FlNext]_vars

----------------------------------------------------------------------------
(* merge_labels.  A volume is a function on MlVox.                         *)

MlVox == {1, 2}

\* The largest int8.
Int8Max == 127

\* The labels of the enumerated volumes: small ones, and ones about and beyond
\* the largest int8.
MlValues == {0, 1, 2, Int8Max, Int8Max + 1, Int8Max + Int8Max}

RECURSIVE Digits(_)
Digits(n) == IF n < 10 THEN 1 ELSE 1 + Digits(n \div 10)

RECURSIVE Pow10(_)
Pow10(k) == IF k = 0 THEN 1 ELSE 10 * Pow10(k - 1)

\* int(f"{int(u1)}{int(u2)}"): the decimal digits of u1 followed by those of u2.
Concat(u1, u2) == u1 * Pow10(Digits(u2)) + u2

\* Lines 145-153: the two volumes are read.
MlInit ==
    /\ in1 \in [MlVox -> MlValues]
    /\ in2 \in [MlVox -> MlValues]
    /\ intersect \in BOOLEAN
    /\ merged = Unused
    /\ ml_pc = "start"
    /\ WmIdle /\ FlIdle

\* Lines 156-160: an int8 volume takes the samples of in1.
MlCopy ==
    /\ ml_pc = "start"
    /\ ~intersect
    /\ \E mode \in CastModes : merged' = [v \in MlVox |-> CastInt(in1[v], 8, mode)]
    /\ ml_pc' = "overwrite"
    /\ UNCHANGED <<in1, in2, intersect>>
    /\ UNCHANGED <<wmVars, flVars>>

\* Lines 161-166: the samples of in2 are written where in2 > 0.
MlOverwrite ==
    /\ ml_pc = "overwrite"
    /\ \E mode \in CastModes :
         merged' = [v \in MlVox |->
                      IF in2[v] > 0 THEN CastInt(in2[v], 8, mode) ELSE merged[v]]
    /\ ml_pc' = "save"
    /\ UNCHANGED <<in1, in2, intersect>>
    /\ UNCHANGED <<wmVars, flVars>>

\* Lines 169-187: every pair of nonzero labels that meet gets a composite id.
MlIntersect ==
    /\ ml_pc = "start"
    /\ intersect
    /\ merged' = [v \in MlVox |->
                    IF in1[v] # 0 /\ in2[v] # 0 THEN Concat(in1[v], in2[v]) ELSE 0]
    /\ ml_pc' = "save"
    /\ UNCHANGED <<in1, in2, intersect>>
    /\ UNCHANGED <<wmVars, flVars>>

\* Lines 189-192: the volume is saved as it is.
MlSave ==
    /\ ml_pc = "save"
    /\ ml_pc' = "done"
    /\ UNCHANGED <<in1, in2, intersect, merged>>
    /\ UNCHANGED <<wmVars, flVars>>

MlNext == MlCopy \/ MlOverwrite \/ MlIntersect \/ MlSave

SpecML == MlInit /\ [][MlNext]_vars

----------------------------------------------------------------------------
(* Properties of filter_labels and merge_labels.                           *)

Range(seq) == {seq[k] : k \in 1..Len(seq)}

\* The ids the groups are relabelled to.
Representatives ==
    {IF fixed_id # None THEN Given(fixed_id)[1] ELSE g[1] : g \in Range(include_superlist)}

PairList == IF map_pairs_list = None THEN <<>> ELSE Given(map_pairs_list)

RemapTargets == {pr[2] : pr \in Range(PairList)}

InNoGroup(v) == \A g \in Range(include_superlist) : in_data[v] \notin Range(g)

\* The new_id of the last pair of the list whose old_id is x; x when there is
\* none.
LastHit(x) ==
    LET hits == {k \in 1..Len(PairList) : PairList[k][1] = x}
    IN  IF hits = {} THEN x
        ELSE PairList[CHOOSE k \in hits : \A j \in hits : j <= k][2]

\* The pairs applied one after another to the current value x, from pair k on.
RECURSIVE Chained(_, _)
Chained(x, k) ==
    IF k > Len(PairList) THEN x
    ELSE Chained(IF x = PairList[k][1] THEN PairList[k][2] ELSE x, k + 1)

\* C5 as stated: a voxel whose source label is in no group has output 0, and
\* every output voxel is 0, a group representative or a remap target.
C5_NoGroupIsZero ==
    fl_pc = "done" =>
      \A v \in FlVox :
        /\ InNoGroup(v) => filtered[v] = 0
        /\ filtered[v] \in {0} \cup Representatives \cup RemapTargets

\* C5 as amended: a voxel whose source label is in no group has output 0,
\* unless a remap pair has old_id 0, and then the new_id of the last such pair;
\* every output voxel is 0, a group representative or a remap target.
C5_NoGroupIsZeroOrRemapped ==
    fl_pc = "done" =>
      \A v \in FlVox :
        /\ InNoGroup(v) => filtered[v] = LastHit(0)
        /\ filtered[v] \in {0} \cup Representatives \cup RemapTargets

\* C5's case: a finished run with groups given, whose voxel has a nonzero
\* source label in no group and is rewritten by a remap pair with old_id 0.
C5_Witness ==
    /\ fl_pc = "done"
    /\ include_superlist # <<>>
    /\ LastHit(0) # 0
    /\ \E v \in FlVox : InNoGroup(v) /\ in_data[v] # 0 /\ filtered[v] = LastHit(0)

\* C9 as stated: each pair rewrites the voxels whose current value, after
\* grouping and all earlier pairs, is old_id.
C9_PairsChain ==
    fl_pc = "done" => \A v \in FlVox : filtered[v] = Chained(new_data[v], 1)

\* C9 as amended: the pairs are applied in listed order, each rewriting the
\* voxels whose value after grouping, before any pair, is old_id: a voxel ends
\* at the new_id of the last pair whose old_id is its grouped value, so with
\* pairs [(a, b), (b, c)] and a # b a voxel grouped to a ends at b.
C9_PairsMatchGrouped ==
    fl_pc = "done" => \A v \in FlVox : filtered[v] = LastHit(new_data[v])

\* C9's case: pairs (a, b), (b, c) with a, b, c distinct and a voxel grouped
\* to a.
C9_Witness ==
    /\ fl_pc = "done"
    /\ Len(PairList) = 2
    /\ PairList[1][2] = PairList[2][1]
    /\ Cardinality({PairList[1][1], PairList[1][2], PairList[2][2]}) = 3
    /\ \E v \in FlVox : new_data[v] = PairList[1][1] /\ ~InNoGroup(v)

\* C6: with intersect = False the stored output is in2 where in2 > 0 and in1
\* elsewhere.
C6_UnionStored ==
    (ml_pc = "done" /\ ~intersect) =>
      \A v \in MlVox : merged[v] = IF in2[v] > 0 THEN in2[v] ELSE in1[v]

----------------------------------------------------------------------------
(* Properties of generate_wmparc.                                          *)

\* The voxels of the grid at one of the offsets of radius n from v.
GridNeighbours(v, n) ==
    {Add(v, o) : o \in structures[n]} \cap Vox(shape)

\* The voxels the scan of v reads at radius n: every offset numpy accepts.
ReadNeighbours(v, n) ==
    {WrapIndex(Add(v, o)) :
        o \in {q \in structures[n] : IndexOK(Add(v, q))}}

\* The voxels a step marks DONE.
Resolved(v) == v \in DONE_mask' /\ v \notin DONE_mask

Undone == proc_mask \ DONE_mask

\* The number of axes on which u and d differ by one, when they differ by at
\* most one on every axis; 0 otherwise.
Adjacency(u, d) ==
    IF \A a \in 1..3 : Abs(u[a] - d[a]) <= 1
      THEN Abs(u[1] - d[1]) + Abs(u[2] - d[2]) + Abs(u[3] - d[3])
      ELSE 0

\* Every undone region voxel touches the DONE set, none across a face.
DiagonalOnly ==
    /\ Undone # {}
    /\ \A u \in Undone :
         /\ \E d \in DONE_mask : Adjacency(u, d) >= 2
         /\ \A d \in DONE_mask : Adjacency(u, d) # 1

\* Every undone region voxel touches the DONE set, only across a corner.
CornerOnly ==
    /\ Undone # {}
    /\ \A u \in Undone :
         /\ \E d \in DONE_mask : Adjacency(u, d) = 3
         /\ \A d \in DONE_mask : Adjacency(u, d) \notin {1, 2}

\* Some undone region voxel touches the DONE set across a face or an edge.
FaceOrEdge == \E u \in Undone : \E d \in DONE_mask : Adjacency(u, d) \in {1, 2}

\* C1: a voxel whose seed label is > 0 keeps that label in the output in every
\* state of the run and is never in a wavefront.
C1_SeedsKept ==
    \A v \in Vox(shape) :
      label[v] > 0 =>
        /\ out[v] = label[v]
        /\ v \notin TODO_mask
        /\ pc = "done" => wmparc[v] = label[v]

\* C1's case: a finished run with a seed, an escalation and a propagated label.
C1_Witness ==
    /\ pc = "done"
    /\ its_conn > 1
    /\ \E v \in Vox(shape) : label[v] > 0
    /\ \E v \in Vox(shape) : label[v] = 0 /\ wmparc[v] > 0

\* C2: generate_wmparc terminates on every input, those without a seed
\* included.
C2_Terminates == <>(pc = "done")

\* C3: a voxel labelled by propagation takes the label of a voxel that is DONE
\* and lies inside the grid at one of the current offsets from it; an offset
\* that lands outside the grid supplies no label.
C3_SourceInGrid ==
    [][\A v \in Vox(shape) :
         Resolved(v) =>
           \E n \in GridNeighbours(v, its_conn) : n \in DONE_mask /\ out'[v] = out[n]]_vars

E2EDone == shape = E2EShape /\ pc = "done"

\* C4 as stated: the scenario ends with every voxel of the grid labelled 7.
C4_AllLabelled == E2EDone => \A v \in Vox(shape) : wmparc[v] = E2ELabel

\* C4 as amended: the scenario ends with every voxel labelled 7 but the far
\* corner, whose distance is 1.0 and which stays 0.
C4_AllButFarCorner ==
    E2EDone => \A v \in Vox(shape) : wmparc[v] = IF v = E2EFar THEN 0 ELSE E2ELabel

C4_Witness == E2EDone /\ wmparc[E2ESeed] = E2ELabel /\ DONE_mask = Vox(shape) \ {E2EFar}

\* The radius changes only by one step up, and only on an empty wavefront with
\* undone region voxels left.
EscalatesWhenEmpty ==
    its_conn' # its_conn =>
      /\ its_conn' = its_conn + 1
      /\ Wavefront(its_conn) = {}
      /\ Undone # {}

\* C7 as stated: the radius is raised only on an empty wavefront; when the
\* undone region voxels touch the DONE set diagonally and not across a face,
\* the first radius finds nothing and the second, one escalation later, does.
C7_DiagonalEscalatesOnce ==
    [][/\ EscalatesWhenEmpty
       /\ (pc = "front" /\ its_conn = 1 /\ DiagonalOnly) =>
            (its_conn' = 2 /\ Wavefront(2) # {})]_vars

\* C7 as amended: the radius starts at the 18-neighbourhood (faces and edges)
\* and is raised only on an empty wavefront; a voxel that touches the DONE set
\* across a face or an edge is reached without escalation, and when the undone
\* region voxels touch it only across a corner the first radius finds nothing
\* and the second, one escalation later, does.
C7_CornerEscalatesOnce ==
    [][/\ EscalatesWhenEmpty
       /\ (pc = "front" /\ its_conn = 1 /\ FaceOrEdge) => its_conn' = its_conn
       /\ (pc = "front" /\ its_conn = 1 /\ CornerOnly) =>
            (its_conn' = 2 /\ Wavefront(2) # {})]_vars

\* C7's case: the corner-only wavefront was found after one escalation.
C7_Witness == pc = "scan" /\ its_conn = 2 /\ visited = {} /\ CornerOnly

\* C8 as stated: the label a wavefront voxel gets is the one the scan finds
\* in the DONE set as it stood at the start of the round.
C8_ReadsRoundStart ==
    [][\A v \in Vox(shape) : Resolved(v) => out'[v] = NeighbourLabelAtRoundStart(v)]_vars

\* C8 as amended: the voxels of a round are resolved in descending order of
\* distance, and each takes the label of a neighbour of greatest distance
\* among those DONE when it is resolved, the voxels resolved earlier in the
\* same round included.
C8_ReadsLiveDone ==
    [][\A v \in Vox(shape) :
         Resolved(v) =>
           /\ \A u \in visited : ndist[u] >= ndist[v]
           /\ LET cands == ReadNeighbours(v, its_conn) \cap DONE_mask
              IN  cands # {} =>
                    \E n \in cands :
                      /\ out'[v] = out[n]
                      /\ \A m \in cands : ndist[m] <= ndist[n]]_vars

\* C8's case: a voxel resolved in this round holds a label other than the one
\* the scan finds in the DONE set of the start of the round.
C8_Witness == \E v \in visited : out[v] # NeighbourLabelAtRoundStart(v)

\* C10: every wavefront voxel has a DONE neighbour inside the grid when it is
\* processed, every DONE voxel holds a nonzero label of the seed volume, and
\* at the end every region voxel is nonzero.
C10_DoneLabelled ==
    /\ pc = "scan" =>
         \A v \in TODO_mask \ visited : GridNeighbours(v, its_conn) \cap DONE_mask # {}
    /\ \A v \in DONE_mask : out[v] # 0 /\ \E u \in Vox(shape) : label[u] = out[v]
    /\ pc = "done" => \A v \in proc_mask : wmparc[v] # 0

\* C10's case: a finished run in which propagation labelled a region voxel.
C10_Witness == pc = "done" /\ \E v \in proc_mask : label[v] = 0 /\ wmparc[v] # 0

====
